---- MODULE Spec2Model ----
(***************************************************************************)
(* TopicsListComponent (topics-list.component.ts) and the Debate shape of  *)
(* models.ts, as a state machine over the component's fields and the       *)
(* browser's localStorage.                                                 *)
(*                                                                         *)
(* Strings the code inspects (names, topics, session ids) are sequences of *)
(* UTF-16 code units.  The text stored under 'debateCounts' is a record    *)
(* [kind, entries]: kind "json" is the text JSON.stringify produced for an *)
(* object (its entries in property order), kind "bad" is a text JSON.parse *)
(* rejects, kind "empty" is the empty string.                              *)
(*                                                                         *)
(* Component fields are indexed by tab: every tab of the browser holds one *)
(* component instance, all tabs share one localStorage.                    *)
(***************************************************************************)
EXTENDS Integers, Sequences, FiniteSets, TLC

VARIABLES
    debates,         \* [tab -> Seq of [id, topic, selectionCount]]
    fetch,           \* [tab -> [status, data]]: the getDebates() request
    viewMode,        \* [tab -> "grid" | "list"]
    selectedDebate,  \* [tab -> NoDebate or [id, topic]]
    debaterA,        \* [tab -> string]
    debaterB,        \* [tab -> string]
    localStorage,    \* function from the keys present to their values
    pc,              \* [tab -> "idle" | "write"]: position inside openSetup
    frame,           \* [tab -> [debateId, counts]]: incrementDebateCount's locals
    lastCall,        \* the handler call that ended last: [op, tab, arg, threw, effects]
    opens,           \* [debate id -> number of openSetup calls that have ended]
    storage0         \* localStorage as it was at construction

vars == <<debates, fetch, viewMode, selectedDebate, debaterA, debaterB,
          localStorage, pc, frame, lastCall, opens, storage0>>

---------------------------------------------------------------------------
(* Bounds and input pools *)

MaxOpens == 2       \* openSetup calls per behaviour
MaxDebates == 2     \* length of the list getDebates() returns
MaxStored == 1      \* largest counter found in storage at construction

Tabs == {1, 2}
Main == CHOOSE t \in Tabs : \A u \in Tabs : t <= u

Alice == <<65, 108, 105, 99, 101>>
Bob == <<66, 111, 98>>
TopicX == <<88>>
TopicY == <<89>>

\* The debates the backend can return and the template can pass to openSetup.
Catalogue == { [id |-> 5, topic |-> TopicX], [id |-> 12, topic |-> TopicY] }
DebateIds == { d.id : d \in Catalogue }

\* What a user can type into a name field:
\* "", " \t" (space, tab), "Alice", "Bob", "Al", "Bob " (trailing space).
NameInputs == { <<>>, <<32, 9>>, Alice, Bob, <<65, 108>>, Bob \o <<32>> }

NoDebate == [id |-> 0, topic |-> <<>>]      \* selectedDebate = null

---------------------------------------------------------------------------
(* String operations of the JavaScript library, on code-unit sequences *)

Underscore == 95

\* White space and line terminators of ECMAScript, which trim() strips
WhiteSpace ==
    {9, 10, 11, 12, 13, 32, 160, 5760, 8232, 8233, 8239, 8287, 12288, 65279}
        \cup (8192..8202)

RECURSIVE TrimStart(_)
TrimStart(s) ==
    IF s # <<>> /\ Head(s) \in WhiteSpace THEN TrimStart(Tail(s)) ELSE s

RECURSIVE TrimEnd(_)
TrimEnd(s) ==
    IF s # <<>> /\ s[Len(s)] \in WhiteSpace
    THEN TrimEnd(SubSeq(s, 1, Len(s) - 1))
    ELSE s

\* String.prototype.trim
Trim(s) == TrimEnd(TrimStart(s))

\* Faulty variant: the test without the trim
BlankUntrimmed(s) == s = <<>>

\* !s.trim(): the empty string is the only falsy string
Blank(s) == Trim(s) = <<>>

\* a < b on strings: comparison by code units, a proper prefix is smaller
RECURSIVE StrLess(_, _)
StrLess(a, b) ==
    IF b = <<>> THEN FALSE
    ELSE IF a = <<>> THEN TRUE
    ELSE IF Head(a) # Head(b) THEN Head(a) < Head(b)
    ELSE StrLess(Tail(a), Tail(b))

\* Array.prototype.sort() with the default comparator, as an insertion sort
RECURSIVE Insert(_, _)
Insert(x, sorted) ==
    IF sorted = <<>> THEN <<x>>
    ELSE IF StrLess(x, Head(sorted)) THEN <<x>> \o sorted
    ELSE <<Head(sorted)>> \o Insert(x, Tail(sorted))

RECURSIVE SortRec(_, _)
SortRec(arr, acc) ==
    IF arr = <<>> THEN acc ELSE SortRec(Tail(arr), Insert(Head(arr), acc))

\* Faulty variant: the array left in argument order
Unsorted(arr) == arr

SortStrings(arr) == SortRec(arr, <<>>)

\* Array.prototype.join(sep)
RECURSIVE Join(_, _)
Join(arr, sep) ==
    IF arr = <<>> THEN <<>>
    ELSE IF Len(arr) = 1 THEN arr[1]
    ELSE arr[1] \o sep \o Join(Tail(arr), sep)

\* Number-to-string conversion of a template literal, for a non-negative integer
RECURSIVE NumberToString(_)
NumberToString(n) ==
    IF n < 10 THEN <<48 + n>> ELSE NumberToString(n \div 10) \o <<48 + (n % 10)>>

\* `${id}_${[a, b].sort().join('_')}`
SessionId(id, a, b) ==
    NumberToString(id) \o <<Underscore>> \o Join(SortStrings(<<a, b>>), <<Underscore>>)

---------------------------------------------------------------------------
(* localStorage and JSON *)

Null == [kind |-> "null", entries |-> <<>>]      \* getItem: no such key
EmptyText == [kind |-> "empty", entries |-> <<>>]  \* the string ''
BadText == [kind |-> "bad", entries |-> <<>>]      \* a text JSON.parse rejects

GetItem(store, key) == IF key \in DOMAIN store THEN store[key] ELSE Null

SetItem(store, key, value) ==
    [k \in DOMAIN store \cup {key} |-> IF k = key THEN value ELSE store[k]]

EmptyObject == [k \in {} |-> 0]

\* The keys of an object in property order: integer keys ascending.
RECURSIVE KeysAscending(_)
KeysAscending(keys) ==
    IF keys = {} THEN <<>>
    ELSE LET least == CHOOSE k \in keys : \A j \in keys : k <= j
         IN  <<least>> \o KeysAscending(keys \ {least})

\* JSON.stringify of an object whose values are numbers
JSONStringify(obj) ==
    LET keys == KeysAscending(DOMAIN obj)
    IN  [kind |-> "json",
         entries |-> [i \in 1..Len(keys) |-> <<keys[i], obj[keys[i]]>>]]

\* JSON.parse throws a SyntaxError on this text
ParseThrows(text) == text.kind # "json"

\* JSON.parse of a text it accepts: the last entry of a key wins
JSONParse(text) ==
    LET e == text.entries
        last(k) == CHOOSE i \in 1..Len(e) :
                       /\ e[i][1] = k
                       /\ \A j \in (i + 1)..Len(e) : e[j][1] # k
    IN  [k \in { e[i][1] : i \in 1..Len(e) } |-> e[last(k)][2]]

\* counts ? JSON.parse(counts) : {}   -- null and '' are falsy
CountsThrows(store) ==
    LET counts == GetItem(store, "debateCounts")
    IN  counts # Null /\ counts # EmptyText /\ ParseThrows(counts)

GetDebateCounts(store) ==
    LET counts == GetItem(store, "debateCounts")
    IN  IF counts = Null \/ counts = EmptyText THEN EmptyObject ELSE JSONParse(counts)

\* counts[id] || 0
CountOr0(counts, id) == IF id \in DOMAIN counts THEN counts[id] ELSE 0

\* Faulty variant: the counter restarted instead of incremented
IncrementedFromOne(counts, id) ==
    [k \in DOMAIN counts \cup {id} |-> IF k = id THEN 1 ELSE counts[k]]

\* counts[debateId] = (counts[debateId] || 0) + 1
Incremented(counts, id) ==
    [k \in DOMAIN counts \cup {id} |->
        IF k = id THEN CountOr0(counts, id) + 1 ELSE counts[k]]

\* data.map(debate => ({...debate, selectionCount: counts[debate.id] || 0}))
Enriched(data, counts) ==
    [i \in 1..Len(data) |->
        [id |-> data[i].id, topic |-> data[i].topic,
         selectionCount |-> CountOr0(counts, data[i].id)]]

\* Faulty variant: the list left as fetched
NotReflected(list, id, n) == list

\* this.debates.find(d => d.id === debateId), then debate.selectionCount = n
Reflected(list, id, n) ==
    IF \E i \in 1..Len(list) : list[i].id = id
    THEN LET first == CHOOSE i \in 1..Len(list) :
                          /\ list[i].id = id
                          /\ \A j \in 1..(i - 1) : list[j].id # id
         IN  [list EXCEPT ![first].selectionCount = n]
    ELSE list

---------------------------------------------------------------------------
(* The component *)

Idle == [debateId |-> 0, counts |-> EmptyObject]

Pending == [status |-> "pending", data |-> <<>>]

Call(op, t, arg, threw, effects) ==
    [op |-> op, tab |-> t, arg |-> arg, threw |-> threw, effects |-> effects]

SetItemCall(key, value) == [call |-> "setItem", key |-> key, value |-> value]

\* router.navigate(['/debates', id]); the id is logged as the path segment
NavigateCall(id) ==
    [call |-> "navigate", key |-> "/debates", value |-> NumberToString(id)]

RECURSIVE Sum(_, _)
Sum(f, S) ==
    IF S = {} THEN 0
    ELSE LET x == CHOOSE y \in S : TRUE IN f[x] + Sum(f, S \ {x})

TotalOpens == Sum(opens, DebateIds)

\* Texts a previous session, or anything else writing to the origin's storage,
\* can have left under 'debateCounts'.
StoredObjects ==
    UNION { [keys -> 1..MaxStored] : keys \in SUBSET DebateIds }

StoredTexts == {EmptyText, BadText} \cup { JSONStringify(o) : o \in StoredObjects }

InitialStorages ==
    {EmptyObject} \cup { SetItem(EmptyObject, "debateCounts", text) : text \in StoredTexts }

\* Field initialisers and constructor of every tab's component; ngOnInit has
\* subscribed to getDebates() and the response is outstanding.
InitFields ==
    /\ debates = [t \in Tabs |-> <<>>]
    /\ fetch = [t \in Tabs |-> Pending]
    /\ viewMode = [t \in Tabs |-> "grid"]
    /\ selectedDebate = [t \in Tabs |-> NoDebate]
    /\ debaterA = [t \in Tabs |-> Alice]
    /\ debaterB = [t \in Tabs |-> Bob]
    /\ pc = [t \in Tabs |-> "idle"]
    /\ frame = [t \in Tabs |-> Idle]
    /\ lastCall = Call("constructor", Main, <<>>, FALSE, <<>>)
    /\ opens = [id \in DebateIds |-> 0]

Init ==
    /\ InitFields
    /\ localStorage \in InitialStorages
    /\ storage0 = localStorage

\* The callback ngOnInit subscribed: getDebates() delivers `data`.
OnDebates(t, data) ==
    /\ pc[t] = "idle"
    /\ fetch[t].status = "pending"
    /\ IF CountsThrows(localStorage)
       THEN /\ fetch' = [fetch EXCEPT ![t] = [status |-> "failed", data |-> data]]
            /\ lastCall' = Call("onDebates", t, data, TRUE, <<>>)
            /\ UNCHANGED debates
       ELSE /\ fetch' = [fetch EXCEPT ![t] = [status |-> "done", data |-> data]]
            /\ debates' = [debates EXCEPT
                              ![t] = Enriched(data, GetDebateCounts(localStorage))]
            /\ lastCall' = Call("onDebates", t, data, FALSE, <<>>)
    /\ UNCHANGED <<viewMode, selectedDebate, debaterA, debaterB, localStorage,
                   pc, frame, opens, storage0>>

\* Faulty variant: a toggle that ignores its argument
SetViewModeToggles(t, mode) ==
    /\ pc[t] = "idle"
    /\ viewMode' = [viewMode EXCEPT ![t] = IF @ = "grid" THEN "list" ELSE "grid"]
    /\ lastCall' = Call("setViewMode", t, mode, FALSE, <<>>)
    /\ UNCHANGED <<debates, fetch, selectedDebate, debaterA, debaterB,
                   localStorage, pc, frame, opens, storage0>>

SetViewMode(t, mode) ==
    /\ pc[t] = "idle"
    /\ viewMode' = [viewMode EXCEPT ![t] = mode]
    /\ lastCall' = Call("setViewMode", t, mode, FALSE, <<>>)
    /\ UNCHANGED <<debates, fetch, selectedDebate, debaterA, debaterB,
                   localStorage, pc, frame, opens, storage0>>

\* openSetup(debate), the whole handler.
OpenSetup(t, debate) ==
    /\ pc[t] = "idle"
    /\ TotalOpens < MaxOpens
    /\ selectedDebate' = [selectedDebate EXCEPT ![t] = debate]
    /\ opens' = [opens EXCEPT ![debate.id] = @ + 1]
    /\ IF CountsThrows(localStorage)
       THEN /\ lastCall' = Call("openSetup", t, debate, TRUE, <<>>)
            /\ UNCHANGED <<localStorage, debates>>
       ELSE LET counts == Incremented(GetDebateCounts(localStorage), debate.id)
                text == JSONStringify(counts)
            IN  /\ localStorage' = SetItem(localStorage, "debateCounts", text)
                /\ debates' = [debates EXCEPT
                                  ![t] = Reflected(@, debate.id, counts[debate.id])]
                /\ lastCall' = Call("openSetup", t, debate, FALSE,
                                    <<SetItemCall("debateCounts", text)>>)
    /\ UNCHANGED <<fetch, viewMode, debaterA, debaterB, pc, frame, storage0>>

\* Faulty variant: closing the dialog also resets the view
CloseSetupResetsView(t) ==
    /\ pc[t] = "idle"
    /\ selectedDebate' = [selectedDebate EXCEPT ![t] = NoDebate]
    /\ viewMode' = [viewMode EXCEPT ![t] = "grid"]
    /\ lastCall' = Call("closeSetup", t, <<>>, FALSE, <<>>)
    /\ UNCHANGED <<debates, fetch, debaterA, debaterB, localStorage,
                   pc, frame, opens, storage0>>

CloseSetup(t) ==
    /\ pc[t] = "idle"
    /\ selectedDebate' = [selectedDebate EXCEPT ![t] = NoDebate]
    /\ lastCall' = Call("closeSetup", t, <<>>, FALSE, <<>>)
    /\ UNCHANGED <<debates, fetch, viewMode, debaterA, debaterB, localStorage,
                   pc, frame, opens, storage0>>

\* The guard of startDebate: true when the handler returns at once.
StartRefused(t) ==
    \/ selectedDebate[t] = NoDebate
    \/ Blank(debaterA[t])
    \/ Blank(debaterB[t])

\* Faulty variant: the navigation requested before the session id is stored
StartEffectsNavigateEarly(t) ==
    << SetItemCall("debaterA", debaterA[t]),
       SetItemCall("debaterB", debaterB[t]),
       SetItemCall("username", debaterA[t]),
       SetItemCall("debateTopic", selectedDebate[t].topic),
       NavigateCall(selectedDebate[t].id),
       SetItemCall("currentSessionId",
                   SessionId(selectedDebate[t].id, debaterA[t], debaterB[t])) >>

\* The calls startDebate makes past its guard, in program order.
StartEffects(t) ==
    << SetItemCall("debaterA", debaterA[t]),
       SetItemCall("debaterB", debaterB[t]),
       SetItemCall("username", debaterA[t]),
       SetItemCall("debateTopic", selectedDebate[t].topic),
       SetItemCall("currentSessionId",
                   SessionId(selectedDebate[t].id, debaterA[t], debaterB[t])),
       NavigateCall(selectedDebate[t].id) >>

\* localStorage after the setItem calls of `effects`, applied in order.
RECURSIVE Applied(_, _)
Applied(store, effects) ==
    IF effects = <<>> THEN store
    ELSE LET e == Head(effects)
         IN  Applied(IF e.call = "setItem" THEN SetItem(store, e.key, e.value)
                     ELSE store,
                     Tail(effects))

StartDebate(t) ==
    /\ pc[t] = "idle"
    /\ IF StartRefused(t)
       THEN /\ lastCall' = Call("startDebate", t, <<>>, FALSE, <<>>)
            /\ UNCHANGED localStorage
       ELSE /\ localStorage' = Applied(localStorage, StartEffects(t))
            /\ lastCall' = Call("startDebate", t, <<>>, FALSE, StartEffects(t))
    /\ UNCHANGED <<debates, fetch, viewMode, selectedDebate, debaterA, debaterB,
                   pc, frame, opens, storage0>>

\* The name fields are public and bound to the dialog's inputs: the user types.
SetDebaterA(t, name) ==
    /\ pc[t] = "idle"
    /\ debaterA' = [debaterA EXCEPT ![t] = name]
    /\ lastCall' = Call("input", t, name, FALSE, <<>>)
    /\ UNCHANGED <<debates, fetch, viewMode, selectedDebate, debaterB,
                   localStorage, pc, frame, opens, storage0>>

SetDebaterB(t, name) ==
    /\ pc[t] = "idle"
    /\ debaterB' = [debaterB EXCEPT ![t] = name]
    /\ lastCall' = Call("input", t, name, FALSE, <<>>)
    /\ UNCHANGED <<debates, fetch, viewMode, selectedDebate, debaterA,
                   localStorage, pc, frame, opens, storage0>>

\* Lists getDebates() can deliver: up to MaxDebates entries of the catalogue,
\* repetitions included.
Responses == UNION { [1..n -> Catalogue] : n \in 0..MaxDebates }

(* One tab: the handlers of the class, each run to completion. *)
Next ==
    \/ \E data \in Responses : OnDebates(Main, data)
    \/ \E mode \in {"grid", "list"} : SetViewMode(Main, mode)
    \/ \E debate \in Catalogue : OpenSetup(Main, debate)
    \/ CloseSetup(Main)
    \/ StartDebate(Main)

Spec == Init /\ [][Next]_vars

(* One tab whose user also edits the two name fields, on a browser profile
   that holds nothing for this origin yet. *)
InitFresh ==
    /\ InitFields
    /\ localStorage = EmptyObject
    /\ storage0 = localStorage

NextStart ==
    \/ \E mode \in {"grid", "list"} : SetViewMode(Main, mode)
    \/ \E debate \in Catalogue : OpenSetup(Main, debate)
    \/ CloseSetup(Main)
    \/ \E name \in NameInputs : SetDebaterA(Main, name)
    \/ \E name \in NameInputs : SetDebaterB(Main, name)
    \/ StartDebate(Main)

SpecStart == InitFresh /\ [][NextStart]_vars

---------------------------------------------------------------------------
(* Two tabs.  A handler runs to completion inside its tab, but the tabs run
   in different event loops: between incrementDebateCount's getItem and its
   setItem another tab may read or write the shared localStorage. *)

\* openSetup up to and including const counts = this.getDebateCounts()
OpenSetupBegin(t, debate) ==
    /\ pc[t] = "idle"
    /\ TotalOpens + Cardinality({u \in Tabs : pc[u] = "write"}) < MaxOpens
    /\ selectedDebate' = [selectedDebate EXCEPT ![t] = debate]
    /\ IF CountsThrows(localStorage)
       THEN /\ lastCall' = Call("openSetup", t, debate, TRUE, <<>>)
            /\ opens' = [opens EXCEPT ![debate.id] = @ + 1]
            /\ UNCHANGED <<pc, frame>>
       ELSE /\ pc' = [pc EXCEPT ![t] = "write"]
            /\ frame' = [frame EXCEPT
                            ![t] = [debateId |-> debate.id,
                                    counts |-> GetDebateCounts(localStorage)]]
            /\ UNCHANGED <<lastCall, opens>>
    /\ UNCHANGED <<debates, fetch, viewMode, debaterA, debaterB, localStorage,
                   storage0>>

\* Faulty variant: an increment that reads the map again when it writes
OpenSetupEndRereads(t) ==
    /\ pc[t] = "write"
    /\ LET id == frame[t].debateId
           counts == Incremented(GetDebateCounts(localStorage), id)
           text == JSONStringify(counts)
       IN  /\ localStorage' = SetItem(localStorage, "debateCounts", text)
           /\ debates' = [debates EXCEPT ![t] = Reflected(@, id, counts[id])]
           /\ lastCall' = Call("openSetup", t, selectedDebate[t], FALSE,
                               <<SetItemCall("debateCounts", text)>>)
           /\ opens' = [opens EXCEPT ![id] = @ + 1]
    /\ pc' = [pc EXCEPT ![t] = "idle"]
    /\ frame' = [frame EXCEPT ![t] = Idle]
    /\ UNCHANGED <<fetch, viewMode, selectedDebate, debaterA, debaterB, storage0>>

\* the rest of incrementDebateCount: increment, setItem, reflect into the list
OpenSetupEnd(t) ==
    /\ pc[t] = "write"
    /\ LET id == frame[t].debateId
           counts == Incremented(frame[t].counts, id)
           text == JSONStringify(counts)
       IN  /\ localStorage' = SetItem(localStorage, "debateCounts", text)
           /\ debates' = [debates EXCEPT ![t] = Reflected(@, id, counts[id])]
           /\ lastCall' = Call("openSetup", t, selectedDebate[t], FALSE,
                               <<SetItemCall("debateCounts", text)>>)
           /\ opens' = [opens EXCEPT ![id] = @ + 1]
    /\ pc' = [pc EXCEPT ![t] = "idle"]
    /\ frame' = [frame EXCEPT ![t] = Idle]
    /\ UNCHANGED <<fetch, viewMode, selectedDebate, debaterA, debaterB, storage0>>

\* Both tabs are served the same listing, in id order.
Listing ==
    LET ids == KeysAscending(DebateIds)
    IN  [i \in 1..Len(ids) |-> CHOOSE d \in Catalogue : d.id = ids[i]]

NextTabs ==
    \/ \E t \in Tabs : OnDebates(t, Listing)
    \/ \E t \in Tabs, debate \in Catalogue : OpenSetupBegin(t, debate)
    \/ \E t \in Tabs : OpenSetupEnd(t)
    \/ \E t \in Tabs : CloseSetup(t)

SpecTabs == Init /\ [][NextTabs]_vars

---------------------------------------------------------------------------
(* Vocabulary of the properties *)

\* The counter stored for id: what a reader of 'debateCounts' finds, 0 if none.
Stored(id) == CountOr0(GetDebateCounts(localStorage), id)

\* The same, at construction.
Initial(id) == CountOr0(GetDebateCounts(storage0), id)

Parsable(store) == ~CountsThrows(store)

WhitespaceOnly(s) == \A i \in 1..Len(s) : s[i] \in WhiteSpace

Has(store, key, value) == key \in DOMAIN store /\ store[key] = value

\* a <= b in lexicographic order of code units, by the first differing position
LexLeq(a, b) ==
    \/ Len(a) <= Len(b) /\ \A i \in 1..Len(a) : a[i] = b[i]
    \/ \E i \in 1..Len(a) :
          /\ i <= Len(b)
          /\ a[i] < b[i]
          /\ \A j \in 1..(i - 1) : a[j] = b[j]

Lesser(x, y) == IF LexLeq(x, y) THEN x ELSE y
Greater(x, y) == IF LexLeq(x, y) THEN y ELSE x

---------------------------------------------------------------------------
(* C1: in one tab, as long as 'debateCounts' held a counter map (or nothing)
   at construction, the counter stored for every id equals its initial value
   (0 if absent) plus the number of openSetup calls made for that id: each
   call adds exactly 1, two calls add 2, open dialog or not. *)
C1_CounterCountsOpens ==
    Parsable(storage0) =>
        /\ Parsable(localStorage)
        /\ \A id \in DebateIds : Stored(id) = Initial(id) + opens[id]

\* a counter that was 1 has been opened twice and reads 3
C1_Witness ==
    \E id \in DebateIds :
        /\ Initial(id) = 1
        /\ opens[id] = 2
        /\ Stored(id) = 3
        /\ selectedDebate[Main].id = id

(* C2, as claimed: once the fetch has delivered a list, the in-memory list
   has one entry per delivered debate, each with selectionCount equal to the
   stored counter of its id, 0 when none is stored or the stored text does
   not parse. *)
C2_FetchAlwaysPopulates ==
    lastCall.op = "onDebates" =>
        LET data == lastCall.arg
            list == debates[Main]
        IN  /\ Len(list) = Len(data)
            /\ \A i \in 1..Len(data) :
                  /\ list[i].id = data[i].id
                  /\ list[i].selectionCount =
                        IF Parsable(localStorage) THEN Stored(data[i].id) ELSE 0

(* C6, as claimed: openSetup(d) on a 'debateCounts' text that does not parse
   completes normally, opens the dialog on d and leaves the stored map equal
   to {d.id: 1}. *)
C6_MalformedTreatedAsEmpty ==
    (lastCall.op = "openSetup" /\ ~Parsable(storage0) /\ TotalOpens = 1) =>
        /\ ~lastCall.threw
        /\ selectedDebate[Main] = lastCall.arg
        /\ Parsable(localStorage)
        /\ GetDebateCounts(localStorage) = Incremented(EmptyObject, lastCall.arg.id)

(* C7: closeSetup() sets the selected debate to none and changes nothing
   else: no storage key, no list entry, not the view mode, not the names; it
   calls neither setItem nor the router. *)
C7_CloseSetupOnlyCloses ==
    [][ lastCall'.op = "closeSetup" =>
          /\ selectedDebate'[Main] = NoDebate
          /\ lastCall'.effects = <<>>
          /\ ~lastCall'.threw
          /\ UNCHANGED <<localStorage, debates, fetch, viewMode, debaterA, debaterB>>
      ]_vars

\* the dialog was closed over a populated list and a stored counter
C7_Witness ==
    /\ lastCall.op = "closeSetup"
    /\ selectedDebate[Main] = NoDebate
    /\ \E id \in DebateIds : opens[id] > 0 /\ Stored(id) > 0
    /\ \E i \in 1..Len(debates[Main]) : debates[Main][i].selectionCount > 0

(* C8: the view mode starts as 'grid' and is always 'grid' or 'list';
   setViewMode(m) makes it m, whatever it was, and changes nothing else. *)
C8_SetViewModeOnlySetsMode ==
    /\ viewMode[Main] = "grid"
    /\ [](viewMode[Main] \in {"grid", "list"})
    /\ [][ lastCall'.op = "setViewMode" =>
             /\ viewMode'[Main] = lastCall'.arg
             /\ lastCall'.effects = <<>>
             /\ UNCHANGED <<localStorage, debates, fetch, selectedDebate,
                            debaterA, debaterB>>
         ]_vars

\* setViewMode('list') was called with a dialog open and a populated list
C8_Witness ==
    /\ lastCall.op = "setViewMode"
    /\ lastCall.arg = "list"
    /\ viewMode[Main] = "list"
    /\ selectedDebate[Main] # NoDebate
    /\ debates[Main] # <<>>

(* C9: in one tab, once the fetch has completed with a list whose ids are
   unique, and 'debateCounts' parses, every entry of the in-memory list shows
   the counter stored for its id (0 if none), whatever calls came before or
   after the fetch. *)
UniqueIds(list) ==
    \A i, j \in 1..Len(list) : list[i].id = list[j].id => i = j

C9_DisplayMatchesStorage ==
    (fetch[Main].status = "done" /\ UniqueIds(debates[Main]) /\ Parsable(localStorage)) =>
        \A i \in 1..Len(debates[Main]) :
            debates[Main][i].selectionCount = Stored(debates[Main][i].id)

\* a listed debate was opened twice and the list shows both
C9_Witness ==
    /\ fetch[Main].status = "done"
    /\ Len(debates[Main]) = 2
    /\ UniqueIds(debates[Main])
    /\ lastCall.op = "openSetup"
    /\ \E i \in 1..2 :
          /\ opens[debates[Main][i].id] = 2
          /\ debates[Main][i].selectionCount = Initial(debates[Main][i].id) + 2

---------------------------------------------------------------------------
(* C3: startDebate() called with no debate selected, or with debaterA or
   debaterB empty or made of whitespace only, calls neither setItem nor the
   router and leaves every component field and all of localStorage,
   'debateCounts' included, as they were. *)
C3_RefusedStartIsNoOp ==
    [][ ( /\ lastCall'.op = "startDebate"
          /\ \/ selectedDebate[Main] = NoDebate
             \/ WhitespaceOnly(debaterA[Main])
             \/ WhitespaceOnly(debaterB[Main]) ) =>
          /\ lastCall'.effects = <<>>
          /\ ~lastCall'.threw
          /\ UNCHANGED <<localStorage, debates, fetch, viewMode, selectedDebate,
                         debaterA, debaterB>>
      ]_vars

\* startDebate() returned at once on a whitespace-only debaterA, dialog open
C3_Witness ==
    /\ lastCall.op = "startDebate"
    /\ lastCall.effects = <<>>
    /\ selectedDebate[Main] # NoDebate
    /\ debaterA[Main] = <<32, 9>>
    /\ ~WhitespaceOnly(debaterB[Main])
    /\ DOMAIN localStorage = {"debateCounts"}

(* C4: startDebate() with a debate selected and both names non-blank makes
   exactly six calls, in this order: setItem of 'debaterA' (debater A's
   name), 'debaterB' (debater B's name), 'username' (debater A's name),
   'debateTopic' (the selected topic), 'currentSessionId' (the session
   identifier), then one navigation to ['/debates', selected id]; afterwards
   the five keys hold those values and 'debateCounts' is as before. *)
C4_StartWritesThenNavigates ==
    [][ ( /\ lastCall'.op = "startDebate"
          /\ selectedDebate[Main] # NoDebate
          /\ ~WhitespaceOnly(debaterA[Main])
          /\ ~WhitespaceOnly(debaterB[Main]) ) =>
          LET e == lastCall'.effects
              a == debaterA[Main]
              b == debaterB[Main]
              d == selectedDebate[Main]
              sid == SessionId(d.id, a, b)
          IN  /\ Len(e) = 6
              /\ \A i \in 1..5 : e[i].call = "setItem"
              /\ <<e[1].key, e[2].key, e[3].key, e[4].key, e[5].key>> =
                    <<"debaterA", "debaterB", "username", "debateTopic",
                      "currentSessionId">>
              /\ <<e[1].value, e[2].value, e[3].value, e[4].value, e[5].value>> =
                    <<a, b, a, d.topic, sid>>
              /\ e[6] = [call |-> "navigate", key |-> "/debates",
                         value |-> NumberToString(d.id)]
              /\ Has(localStorage', "debaterA", a)
              /\ Has(localStorage', "debaterB", b)
              /\ Has(localStorage', "username", a)
              /\ Has(localStorage', "debateTopic", d.topic)
              /\ Has(localStorage', "currentSessionId", sid)
              /\ GetItem(localStorage', "debateCounts") =
                    GetItem(localStorage, "debateCounts")
              /\ UNCHANGED <<debates, fetch, viewMode, selectedDebate,
                             debaterA, debaterB>>
      ]_vars

\* a debate was started on topic Y by "Bob " and "Al"
C4_Witness ==
    /\ lastCall.op = "startDebate"
    /\ Len(lastCall.effects) = 6
    /\ selectedDebate[Main].id = 12
    /\ Has(localStorage, "username", Bob \o <<32>>)
    /\ Has(localStorage, "debaterB", <<65, 108>>)
    /\ Has(localStorage, "debateTopic", TopicY)
    /\ "debateCounts" \in DOMAIN localStorage

(* C5: the session identifier a successful startDebate() stores is the
   debate id, an underscore, the lexicographically lesser of the two names,
   an underscore, the greater one; it is the same whichever of the two names
   is debaterA. *)
C5_SessionIdOrderIndependent ==
    (lastCall.op = "startDebate" /\ lastCall.effects # <<>>) =>
        LET a == debaterA[Main]
            b == debaterB[Main]
            id == selectedDebate[Main].id
        IN  /\ Has(localStorage, "currentSessionId",
                   NumberToString(id) \o <<Underscore>> \o Lesser(a, b)
                       \o <<Underscore>> \o Greater(a, b))
            /\ SessionId(id, b, a) = localStorage["currentSessionId"]

\* debate 5 started with debaterA = "Bob", debaterB = "Alice": '5_Alice_Bob'
C5_Witness ==
    /\ lastCall.op = "startDebate"
    /\ selectedDebate[Main].id = 5
    /\ debaterA[Main] = Bob
    /\ debaterB[Main] = Alice
    /\ Has(localStorage, "currentSessionId",
           <<53, 95, 65, 108, 105, 99, 101, 95, 66, 111, 98>>)

(* C10: with two tabs the increment is an unguarded read-modify-write of the
   whole map.  Whenever a tab finishes openSetup, 'debateCounts' becomes the
   map that tab read at its getItem with its own id incremented, whatever the
   other tab has stored since; so the stored counter of an id never exceeds,
   and can fall short of, its initial value plus the completed openSetup
   calls for that id. *)
C10_WholeMapOverwritten ==
    /\ [](\A id \in DebateIds : Stored(id) <= Initial(id) + opens[id])
    /\ [][ \A t \in Tabs :
             (pc[t] = "write" /\ pc'[t] = "idle") =>
                GetDebateCounts(localStorage') =
                    Incremented(frame[t].counts, frame[t].debateId)
         ]_vars

\* both tabs completed openSetup for the same id; only one increment is stored
C10_Witness ==
    /\ \A t \in Tabs : pc[t] = "idle"
    /\ Parsable(storage0)
    /\ \E id \in DebateIds :
          /\ opens[id] = 2
          /\ Stored(id) = Initial(id) + 1
          /\ \A t \in Tabs : selectedDebate[t].id = id

====
